---- MODULE Spec2Model ----
(***************************************************************************)
(* A model of the imapsrv command/session core: the session state machine  *)
(* (command.go), the string-path pattern resolver (session.go) and the     *)
(* Mailstore they consume.                                                 *)
(*                                                                         *)
(* Go strings that the code indexes or slices are sequences of one-        *)
(* character strings; strings the code only passes around (tags, user ids, *)
(* completion messages) are TLA+ strings.                                  *)
(*                                                                         *)
(* list.execute passes the reference and the pattern to session.list as    *)
(* strings, so the resolver modelled is the string-path revision of        *)
(* session.go; the segment-list revision that follows command.go has the   *)
(* same loop in listMailboxes.  A command that aborts with a Go run-time   *)
(* error returns no response: panicked becomes TRUE and nothing runs after.*)
(***************************************************************************)
EXTENDS Integers, Sequences, FiniteSets, TLC

VARIABLES st, mailbox, store, cmd, pre, resp, calls, mboxes, panicked

vars == <<st, mailbox, store, cmd, pre, resp, calls, mboxes, panicked>>

----------------------------------------------------------------------------
(* Bounds of the model *)

\* The Mailstore call (1st, 2nd, ...) of a command that may fail; 0 = none.
MaxFailAt == 5

----------------------------------------------------------------------------
(* session.go: IMAP session states *)

notAuthenticated == 0
authenticated == 1
selected == 2

\* command.go: the path delimiter
pathDelimiter == "/"

\* The nil *Mailbox
Nil == [Id |-> 0, Name |-> <<>>, Path |-> <<>>, Flags |-> 0]

\* The value of an expression whose evaluation aborts with a Go run-time
\* error (index or slice bounds out of range).  No Go string is equal to it.
PANIC == <<"panic: runtime error">>

----------------------------------------------------------------------------
(* Go string primitives on character sequences *)

\* s[lo:hi], 0-based, hi exclusive
Slice(s, lo, hi) ==
    IF lo < 0 \/ hi > Len(s) \/ lo > hi THEN PANIC
    ELSE [i \in 1..(hi - lo) |-> s[lo + i]]

\* strings.LastIndex(s, sep) for a one-character sep; -1 when absent
LastIndex(s, c) ==
    IF \E i \in 1..Len(s) : s[i] = c
    THEN (CHOOSE i \in 1..Len(s) :
             s[i] = c /\ \A j \in (i + 1)..Len(s) : s[j] # c) - 1
    ELSE -1

\* strings.Contains(s, sub)
Contains(s, sub) ==
    \E i \in 0..(Len(s) - Len(sub)) :
        \A j \in 1..Len(sub) : s[i + j] = sub[j]

RECURSIVE Digits(_)
\* strconv.Itoa for n >= 0, as fmt's %d and Sprint print an int
Digits(n) ==
    LET d == <<"0", "1", "2", "3", "4", "5", "6", "7", "8", "9">>
    IN  IF n < 10 THEN <<d[n + 1]>>
        ELSE Digits(n \div 10) \o <<d[(n % 10) + 1]>>

\* fmt's rendering of the %s verb applied to the rune constant pathDelimiter:
\* a rune is an int32, for which %s is a bad verb: "%!s(int32=47)"
SprintfRuneS ==
    <<"%", "!", "s", "(", "i", "n", "t", "3", "2", "=", "4", "7", ")">>

----------------------------------------------------------------------------
(* The Mailstore collaborator: a mailbox namespace and its counters *)

Work == <<"W", "o", "r", "k">>
INBOX == <<"I", "N", "B", "O", "X">>

\* Mailbox flag bits and their wire tokens (the mailboxFlags table)
Noselect == 1
HasChildren == 2
mailboxFlags ==
    [f \in {Noselect, HasChildren} |->
        IF f = Noselect
        THEN <<"N", "o", "s", "e", "l", "e", "c", "t">>
        ELSE <<"H", "a", "s", "C", "h", "i", "l", "d", "r", "e", "n">>]

Mbox(id, name, path, flags) ==
    [Id |-> id, Name |-> name, Path |-> path, Flags |-> flags]

mWork == Mbox(1, Work, Work, 3)
mINBOX == Mbox(2, INBOX, INBOX, 0)
mA == Mbox(3, <<"a">>, Work \o <<"/", "a">>, HasChildren)
mB == Mbox(4, <<"b">>, Work \o <<"/", "b">>, 0)
mC == Mbox(5, <<"c">>, Work \o <<"/", "a", "/", "c">>, 0)

\* A namespace maps a list of path segments to the ordered list of the
\* mailboxes immediately below it.
EmptyStore == (<<>> :> <<>>)
TreeStore ==
    (<<>> :> <<mWork, mINBOX>>) @@ (<<Work>> :> <<mA, mB>>)
        @@ (<<Work, <<"a">>>> :> <<mC>>)
\* A Mailstore that reports the same child twice
DupStore == (<<>> :> <<mINBOX, mWork>>) @@ (<<Work>> :> <<mB, mB>>)

Stores == {EmptyStore, TreeStore, DupStore}

RECURSIVE Segments(_)
\* The segments of a path string: split on the delimiter, empty ones dropped
Segments(s) ==
    IF s = <<>> THEN <<>>
    ELSE IF Head(s) = pathDelimiter THEN Segments(Tail(s))
    ELSE LET stop == IF \E i \in 1..Len(s) : s[i] = pathDelimiter
                     THEN (CHOOSE i \in 1..Len(s) :
                              s[i] = pathDelimiter
                              /\ \A j \in 1..(i - 1) : s[j] # pathDelimiter)
                     ELSE Len(s) + 1
         IN  <<SubSeq(s, 1, stop - 1)>> \o Segments(SubSeq(s, stop, Len(s)))

\* Mailstore.GetMailboxes(path): the immediate children at the path
GetMailboxes(ms, path) ==
    IF Segments(path) \in DOMAIN ms THEN ms[Segments(path)] ELSE <<>>

AllMailboxes(ms) == UNION {{ms[p][i] : i \in 1..Len(ms[p])} : p \in DOMAIN ms}

\* Mailstore.GetMailbox(name): the mailbox of that name, nil when absent
GetMailbox(ms, name) ==
    IF \E m \in AllMailboxes(ms) : m.Path = name
    THEN CHOOSE m \in AllMailboxes(ms) : m.Path = name
    ELSE Nil

\* The mailbox counters
FirstUnseen(id) == id + 1
TotalMessages(id) == id + 10
RecentMessages(id) == id + 4
NextUid(id) == id + 20

\* The text of a Mailstore error
errText == "mailstore failure"

\* A nil error
nilErr == ""

----------------------------------------------------------------------------
(* The response encoder *)

NoResponse ==
    [tag |-> "", status |-> "none", message |-> "", untagged |-> <<>>,
     closeConnection |-> FALSE]

response(tag, status, message) ==
    [tag |-> tag, status |-> status, message |-> message, untagged |-> <<>>,
     closeConnection |-> FALSE]

ok(tag, message) == response(tag, "OK", message)
no(tag, message) == response(tag, "NO", message)
bad(tag, message) == response(tag, "BAD", message)

\* response.extra: append an untagged line
extra(r, line) == [r EXCEPT !.untagged = Append(@, line)]

\* response.shouldClose: close the connection after sending
shouldClose(r) == [r EXCEPT !.closeConnection = TRUE]

\* internalError forgetting to flag the close
internalErrorKeepOpen(tag, commandName, err) ==
    no(tag, commandName \o " " \o err)

\* internalError (command.go): NO with the error text, and close
internalError(tag, commandName, err) ==
    shouldClose(no(tag, commandName \o " " \o err))

\* mustAuthenticate refusing with NO instead of BAD
mustAuthenticateNo(tag, commandName) ==
    no(tag, commandName \o " not authenticated")

\* mustAuthenticate (command.go)
mustAuthenticate(tag, commandName) ==
    bad(tag, commandName \o " not authenticated")

----------------------------------------------------------------------------
(* Commands *)

Tags == {"a1"}
UserIds == {"test", "root", ""}
Passwords == {"secret", ""}

NoCommand ==
    [op |-> "none", tag |-> "", userId |-> "", password |-> "",
     mailbox |-> <<>>, reference |-> <<>>, mboxPattern |-> <<>>,
     cmd |-> "", failAt |-> 0, flagOrder |-> <<>>]

Session == [st |-> st, mailbox |-> mailbox]

Init ==
    /\ st = notAuthenticated
    /\ mailbox = Nil
    /\ store \in Stores
    /\ cmd = NoCommand
    /\ pre = [st |-> notAuthenticated, mailbox |-> Nil]
    /\ resp = NoResponse
    /\ calls = <<>>
    /\ mboxes = <<>>
    /\ panicked = FALSE

\* What every command execution records: the command, the session it found,
\* the response it returned and the Mailstore calls it made.
Executed(c, r, cs, ms) ==
    /\ cmd' = c
    /\ pre' = Session
    /\ resp' = r
    /\ calls' = cs
    /\ mboxes' = ms
    /\ panicked' = FALSE
    /\ UNCHANGED store

\* noop.execute resetting the session state
NoopLogsOut ==
    \E tag \in Tags :
        /\ ~panicked
        /\ st' = notAuthenticated
        /\ Executed([NoCommand EXCEPT !.op = "NOOP", !.tag = tag],
                    ok(tag, "NOOP Completed"), <<>>, <<>>)
        /\ UNCHANGED mailbox

\* noop.execute
Noop ==
    \E tag \in Tags :
        /\ ~panicked
        /\ Executed([NoCommand EXCEPT !.op = "NOOP", !.tag = tag],
                    ok(tag, "NOOP Completed"), <<>>, <<>>)
        /\ UNCHANGED <<st, mailbox>>

\* capability.execute
Capability ==
    \E tag \in Tags :
        /\ ~panicked
        /\ Executed([NoCommand EXCEPT !.op = "CAPABILITY", !.tag = tag],
                    extra(ok(tag, "CAPABILITY completed"),
                          <<"C", "A", "P", "A", "B", "I", "L", "I", "T", "Y",
                            " ", "I", "M", "A", "P", "4", "r", "e", "v", "1">>),
                    <<>>, <<>>)
        /\ UNCHANGED <<st, mailbox>>

\* login.execute authenticating whatever the user id
loginStateAnyUser(s, userId) ==
    IF s = notAuthenticated THEN authenticated ELSE s

\* The session state login.execute leaves
loginState(s, userId) ==
    IF s = notAuthenticated /\ userId = "test" THEN authenticated ELSE s

\* The response login.execute returns
loginResponse(s, tag, userId) ==
    IF s # notAuthenticated THEN bad(tag, "LOGIN already logged in")
    ELSE IF userId = "test" THEN ok(tag, "LOGIN completed")
    ELSE no(tag, "LOGIN failure")

\* login.execute
Login ==
    \E tag \in Tags, userId \in UserIds, password \in Passwords :
        /\ ~panicked
        /\ st' = loginState(st, userId)
        /\ Executed([NoCommand EXCEPT !.op = "LOGIN", !.tag = tag,
                                      !.userId = userId,
                                      !.password = password],
                    loginResponse(st, tag, userId), <<>>, <<>>)
        /\ UNCHANGED mailbox

BYE ==
    <<"B", "Y", "E", " ", "I", "M", "A", "P", "4", "r", "e", "v", "1", " ",
      "S", "e", "r", "v", "e", "r", " ", "l", "o", "g", "g", "i", "n", "g",
      " ", "o", "u", "t">>

\* logout.execute forgetting to reset the state
logoutStateKept(s) == s

\* The session state logout.execute leaves
logoutState(s) == notAuthenticated

\* The response logout.execute returns
logoutResponse(tag) ==
    shouldClose(extra(ok(tag, "LOGOUT completed"), BYE))

\* logout.execute
Logout ==
    \E tag \in Tags :
        /\ ~panicked
        /\ st' = logoutState(st)
        /\ Executed([NoCommand EXCEPT !.op = "LOGOUT", !.tag = tag],
                    logoutResponse(tag), <<>>, <<>>)
        /\ UNCHANGED mailbox

UnknownCmds == {"FETCH"}

\* unknown.execute
Unknown ==
    \E tag \in Tags, text \in UnknownCmds :
        /\ ~panicked
        /\ Executed([NoCommand EXCEPT !.op = "UNKNOWN", !.tag = tag,
                                      !.cmd = text],
                    bad(tag, text \o " unknown command"), <<>>, <<>>)
        /\ UNCHANGED <<st, mailbox>>


----------------------------------------------------------------------------
(* SELECT *)

txtEXISTS ==
    <<" ", "E", "X", "I", "S", "T", "S">>
txtRECENT ==
    <<" ", "R", "E", "C", "E", "N", "T">>
txtUNSEEN1 ==
    <<"O", "K", " ", "[", "U", "N", "S", "E", "E", "N", " ">>
txtUNSEEN2 ==
    <<"]", " ", "M", "e", "s", "s", "a", "g", "e", " ">>
txtUNSEEN3 ==
    <<" ", "i", "s", " ", "f", "i", "r", "s", "t", " ", "u", "n",
      "s", "e", "e", "n">>
txtUIDVALIDITY1 ==
    <<"O", "K", " ", "[", "U", "I", "D", "V", "A", "L", "I", "D",
      "I", "T", "Y", " ">>
txtUIDVALIDITY2 ==
    <<"]", " ", "U", "I", "D", "s", " ", "v", "a", "l", "i", "d">>
txtUIDNEXT1 ==
    <<"O", "K", " ", "[", "U", "I", "D", "N", "E", "X", "T", " ">>
txtUIDNEXT2 ==
    <<"]", " ", "P", "r", "e", "d", "i", "c", "t", "e", "d", " ",
      "n", "e", "x", "t", " ", "U", "I", "D">>

\* session.addMailboxInfo appending the lines in the order of its queries
mailboxInfoLinesQueryOrder(mbox) ==
    << txtUNSEEN1 \o Digits(FirstUnseen(mbox.Id)) \o txtUNSEEN2
           \o Digits(FirstUnseen(mbox.Id)) \o txtUNSEEN3,
       Digits(TotalMessages(mbox.Id)) \o txtEXISTS,
       Digits(RecentMessages(mbox.Id)) \o txtRECENT,
       txtUIDVALIDITY1 \o Digits(mbox.Id) \o txtUIDVALIDITY2,
       txtUIDNEXT1 \o Digits(NextUid(mbox.Id)) \o txtUIDNEXT2 >>

\* The untagged lines session.addMailboxInfo appends, in its order
mailboxInfoLines(mbox) ==
    << Digits(TotalMessages(mbox.Id)) \o txtEXISTS,
       Digits(RecentMessages(mbox.Id)) \o txtRECENT,
       txtUNSEEN1 \o Digits(FirstUnseen(mbox.Id)) \o txtUNSEEN2
           \o Digits(FirstUnseen(mbox.Id)) \o txtUNSEEN3,
       txtUIDVALIDITY1 \o Digits(mbox.Id) \o txtUIDVALIDITY2,
       txtUIDNEXT1 \o Digits(NextUid(mbox.Id)) \o txtUIDNEXT2 >>

\* The counter queries of session.addMailboxInfo, in its order
counterQueries == <<"FirstUnseen", "TotalMessages", "RecentMessages", "NextUid">>

\* session.addMailboxInfo leaving out the UIDNEXT line
addMailboxInfoNoUidNext(r, mbox, failAt) ==
    LET failed == failAt \in 1..Len(counterQueries)
        made == IF failed THEN failAt ELSE Len(counterQueries)
        lines == mailboxInfoLines(mbox)
    IN  [err |-> IF failed THEN errText ELSE nilErr,
         calls |-> [i \in 1..made |->
                       [fn |-> counterQueries[i], arg |-> Digits(mbox.Id)]],
         resp |-> IF failed THEN r
                  ELSE extra(extra(extra(extra(r, lines[1]), lines[2]),
                                   lines[3]), lines[4])]

\* session.addMailboxInfo: failAt in 1..4 is the counter query that fails
addMailboxInfo(r, mbox, failAt) ==
    LET failed == failAt \in 1..Len(counterQueries)
        made == IF failed THEN failAt ELSE Len(counterQueries)
        lines == mailboxInfoLines(mbox)
    IN  [err |-> IF failed THEN errText ELSE nilErr,
         calls |-> [i \in 1..made |->
                       [fn |-> counterQueries[i], arg |-> Digits(mbox.Id)]],
         resp |-> IF failed THEN r
                  ELSE extra(extra(extra(extra(extra(r, lines[1]), lines[2]),
                                         lines[3]), lines[4]), lines[5])]

\* session.selectMailbox: failed is whether GetMailbox fails
selectMailbox(sess, ms, name, failed) ==
    LET mbox == GetMailbox(ms, name)
    IN  IF failed THEN [exists |-> FALSE, err |-> errText, sess |-> sess]
        ELSE IF mbox = Nil THEN [exists |-> FALSE, err |-> nilErr, sess |-> sess]
        ELSE [exists |-> TRUE, err |-> nilErr,
              sess |-> [sess EXCEPT !.mailbox = mbox]]

\* selectMailbox.execute: the session it leaves, its response and its calls
selectExecute(sess, ms, tag, name, failAt) ==
    IF sess.st # authenticated
    THEN [sess |-> sess, resp |-> mustAuthenticate(tag, "SELECT"),
          calls |-> <<>>]
    ELSE LET sel == selectMailbox(sess, ms, name, failAt = 1)
             c1 == <<[fn |-> "GetMailbox", arg |-> name]>>
         IN  IF sel.err # nilErr
             THEN [sess |-> sel.sess,
                   resp |-> internalError(tag, "SELECT", sel.err),
                   calls |-> c1]
             ELSE IF ~sel.exists
             THEN [sess |-> sel.sess, resp |-> no(tag, "SELECT No such mailbox"),
                   calls |-> c1]
             ELSE LET info == addMailboxInfo(ok(tag, "SELECT completed"),
                                             sel.sess.mailbox, failAt - 1)
                  IN  [sess |-> sel.sess,
                       resp |-> IF info.err # nilErr
                                THEN internalError(tag, "SELECT", info.err)
                                ELSE info.resp,
                       calls |-> c1 \o info.calls]

MailboxNames == {INBOX, Work \o <<"/", "a">>, <<"n", "o", "n", "e">>}

\* selectMailbox.execute
Select ==
    \E tag \in Tags, name \in MailboxNames, failAt \in 0..MaxFailAt :
        \E r \in {selectExecute(Session, store, tag, name, failAt)} :
            /\ ~panicked
            /\ st' = r.sess.st
            /\ mailbox' = r.sess.mailbox
            /\ Executed([NoCommand EXCEPT !.op = "SELECT", !.tag = tag,
                                          !.mailbox = name,
                                          !.failAt = failAt],
                        r.resp, r.calls, <<>>)


----------------------------------------------------------------------------
(* regexp: the fragment the resolver's expressions use.  A character other *)
(* than "." and "*" matches itself, "." matches any character, "*" repeats *)
(* the atom before it.                                                     *)

\* A nil *regexp.Regexp
NilRe == [nil |-> TRUE, atoms |-> <<>>]

RECURSIVE Atoms(_)
\* The atoms of an expression: each a character and whether it is starred
Atoms(expr) ==
    IF expr = <<>> THEN <<>>
    ELSE IF Len(expr) >= 2 /\ expr[2] = "*"
    THEN <<[ch |-> expr[1], star |-> TRUE]>> \o Atoms(SubSeq(expr, 3, Len(expr)))
    ELSE <<[ch |-> expr[1], star |-> FALSE]>> \o Atoms(Tail(expr))

\* regexp.Compile fails on a "*" with nothing to repeat ("*a", "a**")
CompileFails(expr) ==
    \E i \in 1..Len(expr) :
        expr[i] = "*" /\ (i = 1 \/ expr[i - 1] = "*")

\* The error regexp.Compile returns for an expression that fails
compileErr(expr) ==
    IF expr[1] = "*"
    THEN "error parsing regexp: missing argument to repetition operator: *"
    ELSE "error parsing regexp: invalid nested repetition operator: **"

\* regexp.Compile, for an expression that compiles
Compile(expr) == [nil |-> FALSE, atoms |-> Atoms(expr)]

RECURSIVE MatchHere(_, _)
\* The atoms match a prefix of s
MatchHere(atoms, s) ==
    IF atoms = <<>> THEN TRUE
    ELSE LET a == Head(atoms)
             hit == s # <<>> /\ (a.ch = "." \/ a.ch = Head(s))
         IN  IF a.star
             THEN MatchHere(Tail(atoms), s) \/ (hit /\ MatchHere(atoms, Tail(s)))
             ELSE hit /\ MatchHere(Tail(atoms), Tail(s))

\* Regexp.MatchString: the expression matches somewhere in s (unanchored)
MatchString(re, s) ==
    \E i \in 1..(Len(s) + 1) : MatchHere(re.atoms, SubSeq(s, i, Len(s)))

----------------------------------------------------------------------------
(* LIST: the pattern resolver (session.go, string paths) *)

\* addTrailingDelimiter (command.go): s[len(s)-1] aborts on the empty string
addTrailingDelimiter(s) ==
    IF Len(s) = 0 THEN PANIC
    ELSE IF s[Len(s)] # pathDelimiter THEN Append(s, pathDelimiter)
    ELSE s

\* removeDelimiters (command.go): s[0] aborts on the empty string
removeDelimiters(s) ==
    IF Len(s) = 0 THEN PANIC
    ELSE LET start == IF s[1] = pathDelimiter THEN 1 ELSE 0
             end == IF s[Len(s)] = pathDelimiter THEN Len(s) - 1 ELSE Len(s)
         IN  IF end - start > 0 THEN Slice(s, start, end) ELSE <<>>

\* The path of the child mailbox that session.listMailboxes descends into
nextPath(path, name) ==
    IF Len(path) = 0 THEN PANIC
    ELSE IF path[Len(path)] = pathDelimiter THEN path \o name
    ELSE path \o <<"/">> \o name

ListResult(panic, err, ret, cs) ==
    [panic |-> panic, err |-> err, ret |-> ret, calls |-> cs]

RECURSIVE listMailboxes(_, _, _, _, _, _)
RECURSIVE listLoop(_, _, _, _, _, _, _, _)

\* The loop of session.listMailboxes over the rest of the Mailstore's answer;
\* acc is what the invocation has collected and called so far, before the
\* calls that n0 counts.
listLoop(ms, path, mboxRe, recursive, failAt, n0, current, acc) ==
    IF current = <<>> THEN acc
    ELSE LET mbox == Head(current)
             kept == [acc EXCEPT !.ret = Append(@, mbox)]
         IN  IF ~mboxRe.nil /\ ~MatchString(mboxRe, mbox.Name)
             THEN listLoop(ms, path, mboxRe, recursive, failAt, n0,
                           Tail(current), acc)
             ELSE IF ~recursive
             THEN listLoop(ms, path, mboxRe, recursive, failAt, n0,
                           Tail(current), kept)
             ELSE IF nextPath(path, mbox.Name) = PANIC
             THEN ListResult(TRUE, nilErr, <<>>, kept.calls)
             ELSE LET next == listMailboxes(ms, nextPath(path, mbox.Name),
                                            NilRe, TRUE, failAt,
                                            n0 + Len(kept.calls))
                  IN  IF next.panic \/ next.err # nilErr
                      THEN ListResult(next.panic, next.err, <<>>,
                                      kept.calls \o next.calls)
                      ELSE listLoop(ms, path, mboxRe, recursive, failAt, n0,
                                    Tail(current),
                                    ListResult(FALSE, nilErr,
                                               kept.ret \o next.ret,
                                               kept.calls \o next.calls))

\* session.listMailboxes; n0 Mailstore calls were made before this one, and
\* call number failAt fails
listMailboxes(ms, path, mboxRe, recursive, failAt, n0) ==
    LET call == <<[fn |-> "GetMailboxes", arg |-> path]>>
    IN  IF failAt = n0 + 1 THEN ListResult(FALSE, errText, <<>>, call)
        ELSE listLoop(ms, path, mboxRe, recursive, failAt, n0,
                      GetMailboxes(ms, path),
                      ListResult(FALSE, nilErr, <<>>, call))

\* session.list: whether the listing is recursive
listRecursive(mboxPattern) == mboxPattern[Len(mboxPattern)] = "*"

\* session.list: whether the pattern ends in a wildcard
listWildcard(mboxPattern) ==
    mboxPattern[Len(mboxPattern)] \in {"*", "%"}

\* session.list: the path to search from
listPath(reference, mboxPattern) ==
    LET lastDelimiter == LastIndex(mboxPattern, pathDelimiter)
        mboxPathPart == IF lastDelimiter > 0
                        THEN Slice(mboxPattern, 0, lastDelimiter)
                        ELSE <<>>
    IN  IF listWildcard(mboxPattern) THEN reference \o mboxPathPart
        ELSE reference \o mboxPattern

\* session.list: the regular expression built from a wildcard pattern
listExpr(mboxPattern) ==
    LET lastIndex == Len(mboxPattern) - 1
        lastDelimiter == LastIndex(mboxPattern, pathDelimiter)
    IN  IF Len(mboxPattern) = 1 THEN <<".", "*">>
        ELSE IF lastDelimiter > 0
        THEN Slice(mboxPattern, lastDelimiter, lastIndex - 1) \o <<".", "*">>
        ELSE Slice(mboxPattern, 0, lastIndex - 1) \o <<".", "*">>

\* session.list
list(ms, reference, mboxPattern, failAt) ==
    IF Len(mboxPattern) = 0 THEN ListResult(TRUE, nilErr, <<>>, <<>>)
    ELSE IF listWildcard(mboxPattern)
    THEN IF CompileFails(listExpr(mboxPattern))
         THEN ListResult(FALSE, compileErr(listExpr(mboxPattern)), <<>>, <<>>)
         ELSE listMailboxes(ms, listPath(reference, mboxPattern),
                            Compile(listExpr(mboxPattern)),
                            listRecursive(mboxPattern), failAt, 0)
    ELSE listMailboxes(ms, listPath(reference, mboxPattern), NilRe,
                       listRecursive(mboxPattern), failAt, 0)

\* The orders in which a range over the mailboxFlags map may visit the flags
FlagOrders == {<<Noselect, HasChildren>>, <<HasChildren, Noselect>>}

RECURSIVE Join(_, _)
\* strings.Join
Join(strs, sep) ==
    IF strs = <<>> THEN <<>>
    ELSE IF Len(strs) = 1 THEN strs[1]
    ELSE strs[1] \o sep \o Join(Tail(strs), sep)

\* joinMailboxFlags (command.go), the map visited in the given order
joinMailboxFlags(m, order) ==
    LET IsSet(f) == (m.Flags \div f) % 2 = 1
        set == SelectSeq(order, IsSet)
    IN  Join([i \in 1..Len(set) |-> mailboxFlags[set[i]]], <<",">>)

txtLIST ==
    <<"L", "I", "S", "T", " ">>

\* fmt.Sprintf(`LIST (%s) "%s" %s`, flags, pathDelimiter, path)
listLine(flags, path) ==
    txtLIST \o <<"(">> \o flags \o <<")", " ", "\"">> \o SprintfRuneS
        \o <<"\"", " ">> \o path

RECURSIVE listLines(_, _, _)
\* The loop of list.execute that adds one line per mailbox
listLines(r, ms, order) ==
    IF ms = <<>> THEN r
    ELSE listLines(extra(r, listLine(joinMailboxFlags(Head(ms), order),
                                     Head(ms).Path)),
                   Tail(ms), order)

Outcome(panic, r, cs, ms) ==
    [panic |-> panic, resp |-> r, calls |-> cs, mboxes |-> ms]

\* list.execute
listExecute(sess, ms, tag, reference, mboxPattern, failAt, order) ==
    IF sess.st # authenticated
    THEN Outcome(FALSE, mustAuthenticate(tag, "LIST"), <<>>, <<>>)
    ELSE IF mboxPattern = <<>>
    THEN Outcome(FALSE,
                 extra(ok(tag, "LIST completed"), listLine(<<>>, reference)),
                 <<>>, <<>>)
    ELSE IF addTrailingDelimiter(reference) = PANIC
    THEN Outcome(TRUE, NoResponse, <<>>, <<>>)
    ELSE LET found == list(ms, addTrailingDelimiter(reference),
                           removeDelimiters(mboxPattern), failAt)
         IN  IF found.panic THEN Outcome(TRUE, NoResponse, found.calls, <<>>)
             ELSE IF found.err # nilErr
             THEN Outcome(FALSE, internalError(tag, "LIST", found.err),
                          found.calls, <<>>)
             ELSE IF Len(found.ret) = 0
             THEN Outcome(FALSE, no(tag, "LIST no results"), found.calls, <<>>)
             ELSE Outcome(FALSE,
                          listLines(ok(tag, "LIST completed"), found.ret, order),
                          found.calls, found.ret)

References == {<<>>, <<"/">>, Work}
Patterns ==
    { <<>>, <<"%">>, <<"*">>, <<"/">>, Work, <<"/", "/", "a">>,
      Work \o <<"/", "*">>,
      Work \o <<"/", "a">>, Work \o <<"/", "%">>, <<"W", "%">>,
      <<"W", "o", "*">>, <<"*", "o", "*">> }

\* list.execute
List ==
    \E tag \in Tags, reference \in References, mboxPattern \in Patterns,
       failAt \in 0..MaxFailAt, order \in FlagOrders :
        \E r \in {listExecute(Session, store, tag, reference, mboxPattern,
                             failAt, order)} :
            /\ ~panicked
            /\ cmd' = [NoCommand EXCEPT !.op = "LIST", !.tag = tag,
                                        !.reference = reference,
                                        !.mboxPattern = mboxPattern,
                                        !.failAt = failAt,
                                        !.flagOrder = order]
            /\ pre' = Session
            /\ resp' = r.resp
            /\ calls' = r.calls
            /\ mboxes' = r.mboxes
            /\ panicked' = r.panic
            /\ UNCHANGED <<st, mailbox, store>>

Next ==
    \/ Noop
    \/ Capability
    \/ Login
    \/ Logout
    \/ Select
    \/ List
    \/ Unknown

Spec == Init /\ [][Next]_vars

TypeOK ==
    /\ st \in {notAuthenticated, authenticated, selected}
    /\ resp.status \in {"none", "OK", "NO", "BAD"}
    /\ panicked \in BOOLEAN


----------------------------------------------------------------------------
(* Properties *)

\* A Mailstore call of the last command failed (the failing call is the last
\* one the command made).
StoreFailed == cmd.failAt \in 1..Len(calls)

\* The untagged lines of the last response, as a set
Untagged == {resp.untagged[i] : i \in 1..Len(resp.untagged)}

Children(ms, segs) == IF segs \in DOMAIN ms THEN ms[segs] ELSE <<>>

RECURSIVE PreOrderOf(_, _, _)
\* The mailboxes below the path segs in pre-order, kids being the children of
\* segs still to visit: each child, then everything below it, then the rest.
PreOrderOf(ms, segs, kids) ==
    IF kids = <<>> THEN <<>>
    ELSE <<Head(kids)>>
             \o PreOrderOf(ms, Append(segs, Head(kids).Name),
                           Children(ms, Append(segs, Head(kids).Name)))
             \o PreOrderOf(ms, segs, Tail(kids))

PreOrder(ms, segs) == PreOrderOf(ms, segs, Children(ms, segs))

\* C1: from NotAuthenticated, LOGIN returns OK and authenticates only for the
\* sentinel user id "test", and returns NO and stays NotAuthenticated for any
\* other; in any other state LOGIN returns BAD and leaves the state unchanged.
C1_LoginContract ==
    (cmd.op = "LOGIN") =>
        /\ ~panicked
        /\ (pre.st = notAuthenticated /\ cmd.userId = "test")
               => (resp.status = "OK" /\ st = authenticated)
        /\ (pre.st = notAuthenticated /\ cmd.userId # "test")
               => (resp.status = "NO" /\ st = notAuthenticated)
        /\ (pre.st # notAuthenticated)
               => (resp.status = "BAD" /\ st = pre.st)

\* A second LOGIN, after a successful one, was refused
C1_Witness ==
    /\ cmd.op = "LOGIN"
    /\ cmd.userId = "test"
    /\ pre.st = authenticated
    /\ resp.status = "BAD"

\* C2: LOGOUT in any session state leaves the session NotAuthenticated and
\* returns OK with the untagged BYE line and the close-after-send flag set.
C2_LogoutContract ==
    (cmd.op = "LOGOUT") =>
        /\ ~panicked
        /\ st = notAuthenticated
        /\ resp.status = "OK"
        /\ BYE \in Untagged
        /\ resp.closeConnection

\* A LOGOUT of an authenticated session that holds a selected mailbox
C2_Witness ==
    /\ cmd.op = "LOGOUT"
    /\ pre.st = authenticated
    /\ pre.mailbox # Nil
    /\ st = notAuthenticated

\* C3: SELECT while NotAuthenticated returns BAD; in an authenticated session
\* SELECT of an absent mailbox returns NO, and SELECT of an existing mailbox
\* with no Mailstore failure returns OK with exactly 5 untagged lines and
\* records the mailbox as the selected one.
C3_SelectContract ==
    (cmd.op = "SELECT") =>
        /\ ~panicked
        /\ (pre.st = notAuthenticated) => (resp.status = "BAD")
        /\ (pre.st = authenticated /\ ~StoreFailed
                /\ GetMailbox(store, cmd.mailbox) = Nil)
               => (resp.status = "NO")
        /\ (pre.st = authenticated /\ ~StoreFailed
                /\ GetMailbox(store, cmd.mailbox) # Nil)
               => /\ resp.status = "OK"
                  /\ Len(resp.untagged) = 5
                  /\ mailbox = GetMailbox(store, cmd.mailbox)

\* A SELECT of an existing mailbox, other than the one already selected,
\* that succeeded
C3_Witness ==
    /\ cmd.op = "SELECT"
    /\ pre.st = authenticated
    /\ resp.status = "OK"
    /\ mailbox # Nil
    /\ mailbox # pre.mailbox
    /\ mailbox.Path = cmd.mailbox

\* C4: after a SELECT that returns OK the session's state is Selected, and
\* the session holds a selected mailbox only while its state is Selected.
C4_SelectedState ==
    /\ (cmd.op = "SELECT" /\ resp.status = "OK") => (st = selected)
    /\ (mailbox # Nil) => (st = selected)

\* C5: LIST in a session that is not Authenticated returns BAD for every
\* reference and pattern, the empty pattern included, issues no Mailstore
\* query, adds no untagged line, does not flag close and leaves the session
\* state unchanged.
C5_ListNotAuthenticated ==
    (cmd.op = "LIST" /\ pre.st # authenticated) =>
        /\ ~panicked
        /\ resp.status = "BAD"
        /\ resp.message = "LIST not authenticated"
        /\ calls = <<>>
        /\ resp.untagged = <<>>
        /\ ~resp.closeConnection
        /\ st = pre.st
        /\ mailbox = pre.mailbox

\* A LIST with the empty pattern, issued before any LOGIN succeeded
C5_Witness ==
    /\ cmd.op = "LIST"
    /\ pre.st = notAuthenticated
    /\ cmd.mboxPattern = <<>>
    /\ resp.status = "BAD"

\* C6: in an authenticated session, LIST with an empty pattern and any
\* reference R returns OK with exactly one untagged line, which contains the
\* delimiter character and R, and issues zero Mailstore queries.
C6_ListEmptyPattern ==
    (cmd.op = "LIST" /\ pre.st = authenticated /\ cmd.mboxPattern = <<>>) =>
        /\ ~panicked
        /\ resp.status = "OK"
        /\ Len(resp.untagged) = 1
        /\ Contains(resp.untagged[1], <<pathDelimiter>>)
        /\ Contains(resp.untagged[1], cmd.reference)
        /\ calls = <<>>

\* C7: in an authenticated session, LIST with pattern "%" and the empty
\* reference returns exactly the top-level mailboxes of the Mailstore, with a
\* single GetMailboxes query and no recursion.
C7_ListPercentAtRoot ==
    (cmd.op = "LIST" /\ pre.st = authenticated /\ ~StoreFailed
         /\ cmd.reference = <<>> /\ cmd.mboxPattern = <<"%">>) =>
        /\ ~panicked
        /\ Len(calls) = 1
        /\ calls[1].fn = "GetMailboxes"
        /\ Segments(calls[1].arg) = <<>>
        /\ mboxes = Children(store, <<>>)

\* C8: in an authenticated session, LIST with pattern "*" and the empty
\* reference returns every mailbox at every depth, as many times as it is
\* reachable, in pre-order.
C8_ListStarAtRoot ==
    (cmd.op = "LIST" /\ pre.st = authenticated /\ ~StoreFailed
         /\ cmd.reference = <<>> /\ cmd.mboxPattern = <<"*">>) =>
        /\ ~panicked
        /\ mboxes = PreOrder(store, <<>>)

\* C9: in an authenticated session, LIST with pattern "Work/*" returns the
\* whole subtree below the mailbox "Work" under the reference and nothing
\* else, the first query being for the reference joined with "Work".
C9_ListWorkSubtree ==
    (cmd.op = "LIST" /\ pre.st = authenticated /\ ~StoreFailed
         /\ cmd.mboxPattern = Work \o <<"/", "*">>) =>
        /\ ~panicked
        /\ Len(calls) >= 1
        /\ Segments(calls[1].arg) = Append(Segments(cmd.reference), Work)
        /\ mboxes = PreOrder(store, Append(Segments(cmd.reference), Work))

\* C10: in an authenticated session, a LIST whose pattern has no wildcard
\* character issues exactly one Mailstore query, for the reference followed
\* by the pattern, never recurses, and returns at most one mailbox.
C10_ListExact ==
    (cmd.op = "LIST" /\ pre.st = authenticated /\ ~StoreFailed
         /\ cmd.mboxPattern # <<>>
         /\ \A i \in 1..Len(cmd.mboxPattern) :
                cmd.mboxPattern[i] \notin {"*", "%"}) =>
        /\ ~panicked
        /\ Len(calls) = 1
        /\ Segments(calls[1].arg)
               = Segments(cmd.reference) \o Segments(cmd.mboxPattern)
        /\ Len(mboxes) <= 1


\* C11: when a Mailstore call fails during SELECT (GetMailbox or a counter
\* query) or LIST (GetMailboxes at any depth), the response is NO with the
\* error text, has the close-after-send flag set and carries no untagged
\* line: nothing collected before the failure is reported.
C11_StoreFailure ==
    (cmd.op \in {"SELECT", "LIST"} /\ StoreFailed) =>
        /\ ~panicked
        /\ resp.status = "NO"
        /\ resp.message = cmd.op \o " " \o errText
        /\ resp.closeConnection
        /\ resp.untagged = <<>>
        /\ mboxes = <<>>

\* A recursive LIST whose third GetMailboxes query, made below a mailbox
\* already collected, failed
C11_Witness ==
    /\ cmd.op = "LIST"
    /\ StoreFailed
    /\ Len(calls) >= 3
    /\ calls[Len(calls)].fn = "GetMailboxes"
    /\ resp.status = "NO"

\* C12: no command execution aborts: every command, in every session state
\* and for every argument value, returns a response with status OK, NO or BAD.
C12_NoAbort ==
    (cmd.op # "none") =>
        /\ ~panicked
        /\ resp.status \in {"OK", "NO", "BAD"}


HasPrefix(s, t) == Len(t) <= Len(s) /\ SubSeq(s, 1, Len(t)) = t
HasSuffix(s, t) ==
    Len(t) <= Len(s) /\ SubSeq(s, Len(s) - Len(t) + 1, Len(s)) = t

\* What session.list returns to the last LIST (its pattern is not empty and
\* its reference has been normalised)
Resolved ==
    list(store, addTrailingDelimiter(cmd.reference),
         removeDelimiters(cmd.mboxPattern), cmd.failAt)

\* The response of list.execute reports the resolver's result found: NO
\* ("no results") without a line when it is empty, else OK with one LIST line
\* per mailbox, in order, each ending with the mailbox's path.
Reports(found) ==
    IF Len(found.ret) = 0
    THEN /\ resp.status = "NO"
         /\ resp.message = "LIST no results"
         /\ resp.untagged = <<>>
    ELSE /\ resp.status = "OK"
         /\ Len(resp.untagged) = Len(found.ret)
         /\ \A i \in 1..Len(found.ret) :
                /\ HasPrefix(resp.untagged[i], txtLIST \o <<"(">>)
                /\ HasSuffix(resp.untagged[i], <<" ">> \o found.ret[i].Path)

\* C13: in an authenticated session, a LIST with a non-empty pattern and no
\* Mailstore failure returns NO ("no results") with no untagged line when the
\* resolver's result is empty, and otherwise OK with exactly one untagged
\* LIST line per mailbox of the result, in the resolver's order, each line
\* carrying the mailbox's full path.
C13_ListResponse ==
    (cmd.op = "LIST" /\ pre.st = authenticated /\ cmd.mboxPattern # <<>>
         /\ ~StoreFailed) =>
        /\ ~panicked
        /\ Reports(Resolved)


\* C14: the close-after-send flag is set on a response if and only if the
\* command was LOGOUT or a Mailstore call failed during SELECT or LIST; every
\* other OK, NO or BAD response leaves it unset.
C14_CloseFlag ==
    (cmd.op # "none" /\ ~panicked) =>
        (resp.closeConnection <=>
            \/ cmd.op = "LOGOUT"
            \/ cmd.op \in {"SELECT", "LIST"} /\ StoreFailed)


CapabilityLine ==
    <<"C", "A", "P", "A", "B", "I", "L", "I", "T", "Y", " ", "I", "M", "A",
      "P", "4", "r", "e", "v", "1">>

C16_TrailingIdempotent ==
    (cmd.op = "LIST" /\ pre.st = authenticated /\ cmd.mboxPattern # <<>>) =>
        LET once == addTrailingDelimiter(cmd.reference)
        IN  /\ once # PANIC
            /\ once \in {cmd.reference, Append(cmd.reference, pathDelimiter)}
            /\ once[Len(once)] = pathDelimiter
            /\ addTrailingDelimiter(once) = once


\* The status item an untagged SELECT line reports
LineKind(line) ==
    IF HasSuffix(line, txtEXISTS) THEN "EXISTS"
    ELSE IF HasSuffix(line, txtRECENT) THEN "RECENT"
    ELSE IF HasPrefix(line, txtUNSEEN1) THEN "UNSEEN"
    ELSE IF HasPrefix(line, txtUIDVALIDITY1) THEN "UIDVALIDITY"
    ELSE IF HasPrefix(line, txtUIDNEXT1) THEN "UIDNEXT"
    ELSE "other"

LineKinds == [i \in 1..Len(resp.untagged) |-> LineKind(resp.untagged[i])]

SelectSucceeded == cmd.op = "SELECT" /\ resp.status = "OK"

\* C17 as claimed: the untagged lines of a successful SELECT are one per
\* counter, in the order first-unseen, total messages, recent messages,
\* next UID.
C17_CounterOrderClaimed ==
    SelectSucceeded => (LineKinds = <<"UNSEEN", "EXISTS", "RECENT", "UIDNEXT">>)

\* C17 as amended: a successful SELECT queries the counters in the order
\* first-unseen, total, recent, next UID, and appends five lines in the fixed
\* order EXISTS (total), RECENT (recent), UNSEEN (first-unseen), UIDVALIDITY
\* (the mailbox id), UIDNEXT (next UID), each with the selected mailbox's
\* value.
C17_LineOrder ==
    SelectSucceeded =>
        /\ [i \in 1..Len(calls) |-> calls[i].fn]
               = <<"GetMailbox", "FirstUnseen", "TotalMessages",
                   "RecentMessages", "NextUid">>
        /\ LineKinds = <<"EXISTS", "RECENT", "UNSEEN", "UIDVALIDITY", "UIDNEXT">>
        /\ HasPrefix(resp.untagged[1], Digits(TotalMessages(mailbox.Id)))
        /\ HasPrefix(resp.untagged[2], Digits(RecentMessages(mailbox.Id)))
        /\ Contains(resp.untagged[3],
                    <<" ">> \o Digits(FirstUnseen(mailbox.Id)) \o <<"]">>)
        /\ Contains(resp.untagged[4], <<" ">> \o Digits(mailbox.Id) \o <<"]">>)
        /\ Contains(resp.untagged[5],
                    <<" ">> \o Digits(NextUid(mailbox.Id)) \o <<"]">>)

\* A successful SELECT of the mailbox Work/a, whose counters all differ
C17_Witness ==
    /\ SelectSucceeded
    /\ mailbox.Id = 3
    /\ Len(resp.untagged) = 5
    /\ Len(calls) = 5


\* The pattern of the last LIST as session.list receives it
Canonical == removeDelimiters(cmd.mboxPattern)

\* Its leaf segment, the text after the last delimiter
Leaf(p) == SubSeq(p, LastIndex(p, pathDelimiter) + 2, Len(p))

\* The literal text of a leaf before its trailing wildcard
Literal(p) == SubSeq(Leaf(p), 1, Len(Leaf(p)) - 1)

\* The segments of the search path: the reference, then the pattern's
\* segments before the leaf
SearchSegs ==
    Segments(cmd.reference)
        \o Segments(SubSeq(Canonical, 1, Len(Canonical) - Len(Leaf(Canonical))))

RECURSIVE KeepPrefixed(_, _, _, _)
\* The children kids of segs whose name begins with lit, each followed, in a
\* recursive listing, by everything below it
KeepPrefixed(ms, segs, kids, lit) ==
    IF kids = <<>> THEN <<>>
    ELSE (IF HasPrefix(Head(kids).Name, lit)
          THEN <<Head(kids)>>
                   \o (IF listRecursive(Canonical)
                       THEN PreOrder(ms, Append(segs, Head(kids).Name))
                       ELSE <<>>)
          ELSE <<>>)
             \o KeepPrefixed(ms, segs, Tail(kids), lit)

\* C18: for a pattern whose leaf ends with "*" or "%", a child the Mailstore
\* returns at the search path is kept if and only if its name begins with the
\* whole literal text before the trailing wildcard; a leaf that is a single
\* wildcard keeps every child.
C18_PrefixFilter ==
    (cmd.op = "LIST" /\ pre.st = authenticated /\ ~panicked /\ ~StoreFailed
         /\ calls # <<>> /\ listWildcard(Canonical)) =>
        mboxes = KeepPrefixed(store, SearchSegs,
                              Children(store, SearchSegs), Literal(Canonical))


\* The paths the last command passed to Mailstore.GetMailboxes, in call order
QueriedPaths ==
    LET idx == {i \in 1..Len(calls) : calls[i].fn = "GetMailboxes"}
    IN  [i \in idx |-> calls[i].arg]

\* The segments a LIST's first query must name: the reference's, then the
\* pattern's path segments (all of them when the pattern has no wildcard)
FirstSegs ==
    IF listWildcard(Canonical) THEN SearchSegs
    ELSE Segments(cmd.reference) \o Segments(Canonical)

\* C19: every path passed to GetMailboxes during a LIST has exactly one
\* delimiter at each join (reference to pattern, parent path to child name):
\* never a doubled delimiter and never a missing one.
C19_PathJoins ==
    (cmd.op = "LIST" /\ cmd.mboxPattern # <<>>) =>
        \A i \in DOMAIN QueriedPaths :
            /\ ~Contains(QueriedPaths[i], <<pathDelimiter, pathDelimiter>>)
            /\ IF i = 1 THEN Segments(QueriedPaths[i]) = FirstSegs
               ELSE \E j \in 1..(i - 1) :
                        LET kids == Children(store, Segments(QueriedPaths[j]))
                        IN  \E k \in 1..Len(kids) :
                                Segments(QueriedPaths[i])
                                    = Append(Segments(QueriedPaths[j]),
                                             kids[k].Name)


\* C20: when the Mailstore does not fail, a LIST with a non-empty pattern
\* terminates; a recursive one has issued one GetMailboxes query for the
\* search path plus one for each mailbox it keeps, a non-recursive one
\* exactly one query.
C20_QueryCount ==
    (cmd.op = "LIST" /\ pre.st = authenticated /\ cmd.mboxPattern # <<>>
         /\ ~StoreFailed) =>
        /\ ~panicked
        /\ Len(calls) = IF listRecursive(Canonical) THEN 1 + Len(mboxes) ELSE 1


====
